---------------------------- MODULE Spec2Model ----------------------------
(***************************************************************************)
(* Model of the recommendation worker (src/recommender/worker.py): the     *)
(* reliable-queue consumer loop start_worker and the job processor         *)
(* process_job, run by several consumer processes against one Redis        *)
(* broker (two lists) and one MongoDB store.                               *)
(*                                                                         *)
(* A Redis list is a sequence whose index 1 is the LEFT end (head) and     *)
(* whose last index is the RIGHT end (tail).  List entries are byte        *)
(* strings; the model tags every entry with the sequence number of its     *)
(* enqueue (field id) so that properties can speak about one entry.  The   *)
(* id is never read by the worker: LREM matches on the payload only.       *)
(***************************************************************************)
EXTENDS Naturals, Sequences, FiniteSets, Bags

(* ------------------------------ bounds -------------------------------- *)

\* Number of entries the producers enqueue in one behaviour.
MaxJobs == 2

\* Number of consumer processes killed in one behaviour.
MaxCrashes == 1

\* Length of the longest ranking the pipeline returns.
MaxRanked == 11

\* Length of the longest processing list LREM is applied to on its own.
MaxLen == 3

(* --------------------------- byte strings ----------------------------- *)

\* bytes.decode('utf-8') fails on a byte string that is not valid UTF-8;
\* a byte string is modelled by its validity and, when valid, its text.
Bytes(valid, text) == [valid |-> valid, text |-> text]

T_GOOD    == "{\"data\":{\"userId\":\"u1\",\"idpId\":\"i1\"}}"
T_NOIDP   == "{\"data\":{\"userId\":\"u1\",\"idpId\":\"i9\"}}"
T_NOUSER  == "{\"data\":{\"userId\":\"u9\",\"idpId\":\"i1\"}}"
T_NOTJSON == "not json"
T_NUMBER  == "42"
T_EMPTY   == ""
T_STRING   == "\"hello\""
T_ARRAY    == "[1,2]"
T_NULL     == "null"
T_NODATA   == "{}"
T_DATANULL == "{\"data\":null}"
T_DATALIST == "{\"data\":[\"u1\",\"i1\"]}"

B_GOOD    == Bytes(TRUE, T_GOOD)
B_NOIDP   == Bytes(TRUE, T_NOIDP)
B_NOUSER  == Bytes(TRUE, T_NOUSER)
B_NOTJSON == Bytes(TRUE, T_NOTJSON)
B_NUMBER  == Bytes(TRUE, T_NUMBER)
B_EMPTY   == Bytes(TRUE, T_EMPTY)
B_BADUTF8 == Bytes(FALSE, "\\xff\\xfe")

\* The payloads producers (or anyone with access to the broker) may enqueue.
Payloads == {B_GOOD, B_NOIDP, B_NOUSER, B_NOTJSON, B_NUMBER, B_EMPTY, B_BADUTF8}

\* Further payloads that are valid JSON but not a job envelope.
OddPayloads ==
    {Bytes(TRUE, t) : t \in {T_STRING, T_ARRAY, T_NULL, T_NODATA, T_DATANULL, T_DATALIST}}

\* job_json_bytes before the first assignment of an iteration.
Unbound == Bytes(FALSE, "<unbound>")

\* job_json_bytes.decode('utf-8'): defined on valid byte strings only.
DecodeUtf8(b) == b.text

\* redis-py encodes a str argument as UTF-8 before sending it.
EncodeUtf8(t) == Bytes(TRUE, t)

(* ------------------------------- JSON --------------------------------- *)

\* json.loads(job_json): the parsed value, or a parse error.  A value is
\* [type, has_data, data]; data is [type, userId, idpId] ("" = key absent).
NoData == [type |-> "absent", userId |-> "", idpId |-> ""]

JsonLoads(t) ==
    CASE t = T_GOOD   -> [type |-> "object", has_data |-> TRUE,
                          data |-> [type |-> "object", userId |-> "u1", idpId |-> "i1"]]
      [] t = T_NOIDP  -> [type |-> "object", has_data |-> TRUE,
                          data |-> [type |-> "object", userId |-> "u1", idpId |-> "i9"]]
      [] t = T_NOUSER -> [type |-> "object", has_data |-> TRUE,
                          data |-> [type |-> "object", userId |-> "u9", idpId |-> "i1"]]
      [] t = T_NUMBER -> [type |-> "number", has_data |-> FALSE, data |-> NoData]
      [] t = T_STRING -> [type |-> "string", has_data |-> FALSE, data |-> NoData]
      [] t = T_ARRAY  -> [type |-> "array", has_data |-> FALSE, data |-> NoData]
      [] t = T_NULL   -> [type |-> "None", has_data |-> FALSE, data |-> NoData]
      [] t = T_NODATA -> [type |-> "object", has_data |-> FALSE, data |-> NoData]
      [] t = T_DATANULL -> [type |-> "object", has_data |-> TRUE,
                            data |-> [type |-> "None", userId |-> "", idpId |-> ""]]
      [] t = T_DATALIST -> [type |-> "object", has_data |-> TRUE,
                            data |-> [type |-> "array", userId |-> "", idpId |-> ""]]
      [] OTHER        -> [type |-> "JSONDecodeError", has_data |-> FALSE, data |-> NoData]

\* job.get('data', {}): the default {} is an empty object.
GetDataOrEmpty(job) ==
    IF job.has_data THEN job.data
    ELSE [type |-> "object", userId |-> "", idpId |-> ""]

\* job.get('data'): None when the key is absent.
GetData(job) ==
    IF job.has_data THEN job.data
    ELSE [type |-> "None", userId |-> "", idpId |-> ""]

(* ----------------------------- Redis ---------------------------------- *)

\* LPUSH key value
LPush(list, e) == <<e>> \o list

\* Index of the first entry (from the head) whose payload equals value; 0 if none.
FirstMatch(list, value) ==
    IF \E i \in 1..Len(list) : list[i].payload = value
    THEN CHOOSE i \in 1..Len(list) :
            /\ list[i].payload = value
            /\ \A j \in 1..(i-1) : list[j].payload # value
    ELSE 0

RemoveAt(list, i) ==
    [k \in 1..(Len(list) - 1) |-> IF k < i THEN list[k] ELSE list[k+1]]

LRemNothing(list, count, value) == list

LRemLast(list, count, value) ==
    LET M == {k \in 1..Len(list) : list[k].payload = value}
    IN  IF M = {} THEN list
        ELSE RemoveAt(list, CHOOSE m \in M : \A o \in M : o <= m)

LRemAll(list, count, value) == SelectSeq(list, LAMBDA e : e.payload # value)

\* LREM key count value, for count = 1: removes the first match from the head.
LRem(list, count, value) ==
    LET i == FirstMatch(list, value)
    IN  IF i = 0 THEN list ELSE RemoveAt(list, i)

BPopOnly(src, dst) ==
    [src |-> SubSeq(src, 1, Len(src) - 1), dst |-> dst, ret |-> src[Len(src)]]

PeekLPush(src, dst) ==
    [src |-> src, dst |-> LPush(dst, src[Len(src)]), ret |-> src[Len(src)]]

LPopLPush(src, dst) ==
    [src |-> Tail(src), dst |-> LPush(dst, Head(src)), ret |-> Head(src)]

\* BRPOPLPUSH src dst 0 on a non-empty src, one atomic broker command:
\* pops the RIGHT end of src, pushes it on the LEFT of dst, returns it.
BRPopLPush(src, dst) ==
    [src |-> SubSeq(src, 1, Len(src) - 1),
     dst |-> LPush(dst, src[Len(src)]),
     ret |-> src[Len(src)]]


(* ------------------------------ MongoDB ------------------------------- *)

\* The documents of the store: one User, one IDP, two Skills and the fetched
\* Resources (the end-to-end scenario of the specification).
Users == {"u1"}

IdpIds == {"i1"}

\* A goal of an IDP: its skill reference and, when has_levels, its own gap
\* and level data.
G_PLAIN == [skill |-> "s1", has_levels |-> FALSE, gap |-> "", currentLevel |-> 0, targetLevel |-> 0]
G_RATED == [skill |-> "s2", has_levels |-> TRUE, gap |-> "0.8", currentLevel |-> 2, targetLevel |-> 4]

InitialIdp == [goals |-> <<G_PLAIN>>, suggestedResources |-> <<>>,
               status |-> "draft", updatedAt |-> 0]

\* The goal lists an IDP may carry.
GoalLists == { <<>>, <<G_PLAIN>>, <<G_RATED>>, <<G_PLAIN, G_RATED>>, <<G_RATED, G_PLAIN>> }

\* The _id of the i-th fetched Resource.
ResourceId(i) == <<"r", i>>

\* resource_ranker.rank_resources(...): the external pipeline's ranking of
\* the fetched resources, highest score first.
rank_resources ==
    << [resource |-> ResourceId(1), score |-> 9, reason |-> ""],
       [resource |-> ResourceId(2), score |-> 3, reason |-> "related skill"] >>

TopN == 10

\* The _ids of the Resources db.resources.find({}) returns.
all_resources == {ResourceId(i) : i \in 1..MaxRanked}

\* A ranking of n fetched resources the pipeline may return: highest score
\* first, all scores equal when tied; every second entry carries no reason.
RankingOf(n, tied) ==
    [i \in 1..n |->
        [resource |-> ResourceId(i),
         score    |-> IF tied THEN 1 ELSE n + 1 - i,
         reason   |-> IF i % 2 = 0 THEN "" ELSE "related skill"]]

\* The empty ranking and the rankings around the cut at ten entries.
Rankings == {RankingOf(n, tied) : n \in {0} \cup ((TopN - 1)..MaxRanked), tied \in BOOLEAN}

\* The skill-gap list of lines 70-80: one entry per goal, in goal order, with
\* the literals 0.5 / 1 / 5 of the source.
skills_to_improve_of(goals) ==
    [k \in 1..Len(goals) |->
        [skillId |-> goals[k].skill, gap |-> "0.5", currentLevel |-> 1, targetLevel |-> 5]]

formatted_recs_no_cut(ranked) ==
    [i \in 1..Len(ranked) |->
        [resource |-> ranked[i].resource,
         score    |-> ranked[i].score,
         reason   |-> IF ranked[i].reason = ""
                      THEN "Recommended based on your goals"
                      ELSE ranked[i].reason]]

\* ranked_resources[:10], each entry formatted with the default reason.
formatted_recs(ranked) ==
    [i \in 1..(IF Len(ranked) < TopN THEN Len(ranked) ELSE TopN) |->
        [resource |-> ranked[i].resource,
         score    |-> ranked[i].score,
         reason   |-> IF ranked[i].reason = ""
                      THEN "Recommended based on your goals"
                      ELSE ranked[i].reason]]

update_one_push(idps_, idp_id, recs, now) ==
    IF idp_id \in DOMAIN idps_
    THEN [idps_ EXCEPT ![idp_id].suggestedResources = @ \o recs,
                       ![idp_id].status = "active",
                       ![idp_id].updatedAt = now]
    ELSE idps_

\* db.idps.update_one({"_id": idp_id}, {"$set": {...}}): no upsert, so an id
\* that matches no document changes nothing; $set leaves the other fields.
update_one(idps_, idp_id, recs, now) ==
    IF idp_id \in DOMAIN idps_
    THEN [idps_ EXCEPT ![idp_id].suggestedResources = recs,
                       ![idp_id].status = "active",
                       ![idp_id].updatedAt = now]
    ELSE idps_

\* The body of process_job's try block: the exception it ends with ("none"
\* when it runs to its end or returns early), the IDP collection it leaves
\* and the skill-gap list it handed to the pipeline (built = FALSE when it
\* never got that far).
\*   job_data.get on None                      -> AttributeError
\*   find_one / find / update_one, store down  -> PyMongoError
\*   user or idp not found                     -> early return, nothing written
\*   the ranking pipeline fails                -> PipelineError
process_job_body(job_data, store_up, pipeline_ok, idps_, now, ranked) ==
    CASE job_data.type # "object" ->
            [exc |-> "AttributeError", wrote |-> FALSE, idps |-> idps_,
             built |-> FALSE, skills |-> <<>>]
      [] OTHER ->
         IF ~store_up
         THEN [exc |-> "PyMongoError", wrote |-> FALSE, idps |-> idps_,
               built |-> FALSE, skills |-> <<>>]
         ELSE IF job_data.userId \notin Users \/ job_data.idpId \notin DOMAIN idps_
         THEN [exc |-> "none", wrote |-> FALSE, idps |-> idps_,
               built |-> FALSE, skills |-> <<>>]
         ELSE LET skills == skills_to_improve_of(idps_[job_data.idpId].goals)
              IN  IF ~pipeline_ok
                  THEN [exc |-> "PipelineError", wrote |-> FALSE, idps |-> idps_,
                        built |-> TRUE, skills |-> skills]
                  ELSE [exc |-> "none", wrote |-> TRUE,
                        idps |-> update_one(idps_, job_data.idpId, formatted_recs(ranked), now),
                        built |-> TRUE, skills |-> skills]

process_job_no_try(job_data, store_up, pipeline_ok, idps_, now, ranked) ==
    LET r == process_job_body(job_data, store_up, pipeline_ok, idps_, now, ranked)
    IN  [raised |-> r.exc, caught |-> "none", wrote |-> r.wrote, idps |-> r.idps,
         built |-> r.built, skills |-> r.skills]

process_job_narrow_except(job_data, store_up, pipeline_ok, idps_, now, ranked) ==
    LET r == process_job_body(job_data, store_up, pipeline_ok, idps_, now, ranked)
    IN  [raised |-> IF r.exc = "PipelineError" THEN r.exc ELSE "none",
         caught |-> IF r.exc = "PipelineError" THEN "none" ELSE r.exc,
         wrote |-> r.wrote, idps |-> r.idps, built |-> r.built, skills |-> r.skills]

process_job_no_lookup_check(job_data, store_up, pipeline_ok, idps_, now, ranked) ==
    IF job_data.type = "object" /\ store_up /\ pipeline_ok
    THEN [raised |-> "none", caught |-> "none", wrote |-> TRUE,
          idps |-> update_one(idps_, job_data.idpId, formatted_recs(ranked), now),
          built |-> FALSE, skills |-> <<>>]
    ELSE [raised |-> "none", caught |-> "none", wrote |-> FALSE, idps |-> idps_,
          built |-> FALSE, skills |-> <<>>]

process_job_status_first(job_data, store_up, pipeline_ok, idps_, now, ranked) ==
    LET r == process_job_body(job_data, store_up, pipeline_ok, idps_, now, ranked)
    IN  [raised |-> "none", caught |-> r.exc, wrote |-> r.wrote,
         idps |-> IF r.exc = "PipelineError"
                  THEN [idps_ EXCEPT ![job_data.idpId].status = "active"]
                  ELSE r.idps,
         built |-> r.built, skills |-> r.skills]

\* process_job: try: <body> except Exception: print(...).  Whatever the body
\* raises is caught; the call always returns normally.
process_job(job_data, store_up, pipeline_ok, idps_, now, ranked) ==
    LET r == process_job_body(job_data, store_up, pipeline_ok, idps_, now, ranked)
    IN  [raised |-> "none", caught |-> r.exc, wrote |-> r.wrote, idps |-> r.idps,
         built |-> r.built, skills |-> r.skills]

(* --------------------------- the worker loop -------------------------- *)

Consumers == {"w1", "w2"}

\* What lines 191-197 of start_worker do with the bytes BRPOPLPUSH returned:
\*   "falsy"  the bytes are empty, "if job_json_bytes:" skips the iteration
\*   an exception name, raised by decode / json.loads / job.get(...).get
\*   "ok"     process_job is called next
parse_step(b) ==
    IF b.valid /\ b.text = "" THEN "falsy"
    ELSE IF ~b.valid THEN "UnicodeDecodeError"
    ELSE LET job == JsonLoads(DecodeUtf8(b))
         IN  IF job.type = "JSONDecodeError" THEN "JSONDecodeError"
             ELSE IF job.type # "object" THEN "AttributeError"
             ELSE IF GetDataOrEmpty(job).type # "object" THEN "AttributeError"
             ELSE "ok"

except_clause_ack_all(e) == IF e = "ConnectionError" THEN "purge" ELSE "backoff"

except_clause_purge_all(e) == "purge"

except_clause_value_error(e) ==
    IF e \in {"JSONDecodeError", "UnicodeDecodeError", "AttributeError"} THEN "purge" ELSE "backoff"

except_clause_broker_error_exits(e) ==
    IF e = "JSONDecodeError" THEN "purge"
    ELSE IF e = "ConnectionError" THEN "exited"
    ELSE "backoff"

\* The except clauses of the loop: json.JSONDecodeError is purged, every
\* other Exception is logged and followed by time.sleep(1).
except_clause(e) ==
    IF e = "JSONDecodeError" THEN "purge" ELSE "backoff"

(* ------------------------------- state -------------------------------- *)

VARIABLES
    main_queue,       \* Redis list QUEUE_NAME ("recommendation_queue")
    processing,       \* Redis list PROCESSING_QUEUE ("recommendation_queue:processing")
    idps,             \* MongoDB collection db.idps, by _id
    clock,            \* datetime.utcnow(), in ticks
    ranked_resources, \* what rank_resources returns for the store's Users, Skills, Resources
    skills_to_improve,\* history: the skill-gap list last handed to rank_resources
    written,          \* history: bag of the ids of the jobs whose result update_one stored
    pc,               \* each consumer process's position in start_worker
    job_json_bytes,   \* each consumer's local job_json_bytes
    exc,              \* the exception last caught in each consumer's iteration:
                      \* inside process_job or by the loop's except clauses
    next_id,          \* history: sequence number of the next enqueue
    delivered,        \* history: the ids BRPOPLPUSH returned, in order
    removed,          \* history: the ids of the entries LREM removed
    ever_staged,      \* history: the ids observed in the processing list
    cold,             \* history: the ids enqueued while no consumer was running
    parked,           \* history: bag of [payload, why], jobs dequeued and left unacknowledged
    crashes,          \* history: number of consumer processes killed
    job_id            \* history: the id of the entry each consumer holds (0 = none)

vars == <<main_queue, processing, idps, clock, ranked_resources, skills_to_improve,
          written, pc, job_json_bytes, exc, job_id,
          next_id, delivered, removed, ever_staged, cold, parked, crashes>>

broker == <<main_queue, processing>>

store == <<idps, clock, ranked_resources, skills_to_improve, written>>

history == <<next_id, delivered, removed, ever_staged, cold, parked, crashes, job_id>>

Release(c) == job_id' = [job_id EXCEPT ![c] = 0]

Ids(list) == {list[i].id : i \in 1..Len(list)}

Count(list, value) == Cardinality({i \in 1..Len(list) : list[i].payload = value})

\* A consumer between the return of BRPOPLPUSH and its LREM holds a job.
Holding == {"staged", "process", "ack", "purge"}

Running(c) == pc[c] \notin {"stopped", "dead"}

\* The processing list as an observer sees it after a broker command.
Observe == ever_staged' = ever_staged \cup Ids(processing')

Park(b, why) == parked (+) SetToBag({[payload |-> b, why |-> why]})

\* Both lists empty, no consumer started, nothing written yet.
Fresh ==
    /\ main_queue = <<>>
    /\ processing = <<>>
    /\ clock = 1
    /\ skills_to_improve = <<>>
    /\ written = EmptyBag
    /\ job_id = [c \in Consumers |-> 0]
    /\ pc = [c \in Consumers |-> "stopped"]
    /\ job_json_bytes = [c \in Consumers |-> Unbound]
    /\ exc = [c \in Consumers |-> "none"]
    /\ next_id = 1
    /\ delivered = <<>>
    /\ removed = {}
    /\ ever_staged = {}
    /\ cold = {}
    /\ parked = EmptyBag
    /\ crashes = 0

Init ==
    /\ Fresh
    /\ idps = [i \in IdpIds |-> InitialIdp]
    /\ ranked_resources = rank_resources

(* ---------------------------- environment ----------------------------- *)

\* A producer appends a job envelope to the main queue (LPUSH).
Enqueue(b) ==
    /\ next_id <= MaxJobs
    /\ main_queue' = LPush(main_queue, [id |-> next_id, payload |-> b])
    /\ next_id' = next_id + 1
    /\ cold' = IF \A c \in Consumers : ~Running(c) THEN cold \cup {next_id} ELSE cold
    /\ UNCHANGED <<processing, store, pc, job_json_bytes, exc, delivered,
                   removed, ever_staged, parked, crashes, job_id>>

\* A consumer process is started (python worker.py).  A process started
\* after a kill is another member of Consumers.
Start(c) ==
    /\ pc[c] = "stopped"
    /\ pc' = [pc EXCEPT ![c] = "idle"]
    /\ UNCHANGED <<broker, store, job_json_bytes, exc, history>>

\* A consumer process is killed, at any point of the loop.
Crash(c) ==
    /\ Running(c)
    /\ crashes < MaxCrashes
    /\ crashes' = crashes + 1
    /\ parked' = IF pc[c] \in Holding THEN Park(job_json_bytes[c], "crash") ELSE parked
    /\ pc' = [pc EXCEPT ![c] = "dead"]
    /\ job_json_bytes' = [job_json_bytes EXCEPT ![c] = Unbound]
    /\ exc' = [exc EXCEPT ![c] = "none"]
    /\ Release(c)
    /\ UNCHANGED <<broker, store, next_id, delivered, removed, ever_staged, cold>>

(* --------------------------- start_worker ----------------------------- *)

\* An exception reaches the loop's except clauses.  On the way to
\* time.sleep(1) the job (if one was dequeued) is left where it is.
Raise(c, e) ==
    LET h == except_clause(e)
    IN  /\ pc' = [pc EXCEPT ![c] = h]
        /\ exc' = [exc EXCEPT ![c] = e]
        /\ parked' = IF h = "backoff" /\ pc[c] \in Holding
                      THEN Park(job_json_bytes[c], "exception")
                      ELSE parked
        /\ IF h = "backoff" THEN Release(c) ELSE job_id' = job_id

\* redis_client.brpoplpush(QUEUE_NAME, PROCESSING_QUEUE, timeout=0) returns:
\* the call blocks while the main queue is empty.
Dequeue(c) ==
    /\ pc[c] = "idle"
    /\ main_queue # <<>>
    /\ LET r == BRPopLPush(main_queue, processing)
       IN  /\ main_queue' = r.src
           /\ processing' = r.dst
           /\ job_json_bytes' = [job_json_bytes EXCEPT ![c] = r.ret.payload]
           /\ delivered' = Append(delivered, r.ret.id)
           /\ job_id' = [job_id EXCEPT ![c] = r.ret.id]
    /\ Observe
    /\ pc' = [pc EXCEPT ![c] = "staged"]
    /\ UNCHANGED <<store, exc, next_id, removed, cold, parked, crashes>>

\* redis_client.brpoplpush raises: the broker is unreachable.
DequeueFails(c) ==
    /\ pc[c] = "idle"
    /\ Raise(c, "ConnectionError")
    /\ UNCHANGED <<broker, store, job_json_bytes, next_id, delivered, removed,
                   ever_staged, cold, crashes>>

\* if job_json_bytes: decode, json.loads, job.get('data', {}).get(...).
Parse(c) ==
    /\ pc[c] = "staged"
    /\ LET r == parse_step(job_json_bytes[c])
       IN  \/ /\ r = "falsy"
              /\ pc' = [pc EXCEPT ![c] = "idle"]
              /\ parked' = Park(job_json_bytes[c], "skipped")
              /\ exc' = exc
              /\ Release(c)
           \/ /\ r = "ok"
              /\ pc' = [pc EXCEPT ![c] = "process"]
              /\ UNCHANGED <<parked, exc, job_id>>
           \/ /\ r \notin {"falsy", "ok"}
              /\ Raise(c, r)
    /\ UNCHANGED <<broker, store, job_json_bytes, next_id, delivered, removed,
                   ever_staged, cold, crashes>>

\* process_job(job.get('data')), with the store reachable or not and the
\* ranking pipeline succeeding or not.
ProcessWith(c, store_up, pipeline_ok) ==
    /\ pc[c] = "process"
    /\ LET job == JsonLoads(DecodeUtf8(job_json_bytes[c]))
           r   == process_job(GetData(job), store_up, pipeline_ok, idps, clock,
                              ranked_resources)
       IN  /\ idps' = r.idps
           /\ clock' = IF r.wrote THEN clock + 1 ELSE clock
           /\ skills_to_improve' = IF r.built THEN r.skills ELSE skills_to_improve
           /\ written' = IF r.wrote THEN written (+) SetToBag({job_id[c]}) ELSE written
           /\ IF r.raised = "none"
              THEN /\ pc' = [pc EXCEPT ![c] = "ack"]
                   /\ exc' = [exc EXCEPT ![c] = r.caught]
                   /\ UNCHANGED <<parked, job_id>>
              ELSE Raise(c, r.raised)
    /\ UNCHANGED <<broker, ranked_resources, job_json_bytes, next_id, delivered, removed,
                   ever_staged, cold, crashes>>

\* process_job(job.get('data')): the store may be down and the pipeline may
\* fail during the call.
Process(c) ==
    \E store_up \in BOOLEAN, pipeline_ok \in BOOLEAN : ProcessWith(c, store_up, pipeline_ok)

\* redis_client.lrem(PROCESSING_QUEUE, 1, job_json) succeeds.
Ack(c) ==
    /\ pc[c] = "ack"
    /\ processing' = LRem(processing, 1, EncodeUtf8(DecodeUtf8(job_json_bytes[c])))
    /\ removed' = removed \cup (Ids(processing) \ Ids(processing'))
    /\ Observe
    /\ pc' = [pc EXCEPT ![c] = "idle"]
    /\ exc' = [exc EXCEPT ![c] = "none"]
    /\ Release(c)
    /\ UNCHANGED <<main_queue, store, job_json_bytes, next_id, delivered,
                   cold, parked, crashes>>

\* redis_client.lrem(PROCESSING_QUEUE, 1, job_json) raises: broker unreachable.
AckFails(c) ==
    /\ pc[c] = "ack"
    /\ Raise(c, "ConnectionError")
    /\ UNCHANGED <<broker, store, job_json_bytes, next_id, delivered, removed,
                   ever_staged, cold, crashes>>

\* except json.JSONDecodeError: try: redis_client.lrem(PROCESSING_QUEUE, 1,
\* job_json_bytes.decode('utf-8')) except: pass
PurgeDone(c) ==
    /\ pc[c] = "purge"
    /\ processing' = LRem(processing, 1, EncodeUtf8(DecodeUtf8(job_json_bytes[c])))
    /\ removed' = removed \cup (Ids(processing) \ Ids(processing'))
    /\ Observe
    /\ pc' = [pc EXCEPT ![c] = "idle"]
    /\ exc' = [exc EXCEPT ![c] = "none"]
    /\ Release(c)
    /\ UNCHANGED <<main_queue, store, job_json_bytes, next_id, delivered,
                   cold, parked, crashes>>

\* The purging lrem raises and the bare except swallows it.
PurgeFails(c) ==
    /\ pc[c] = "purge"
    /\ parked' = Park(job_json_bytes[c], "purge_failed")
    /\ pc' = [pc EXCEPT ![c] = "idle"]
    /\ exc' = [exc EXCEPT ![c] = "none"]
    /\ Release(c)
    /\ UNCHANGED <<broker, store, job_json_bytes, next_id, delivered, removed,
                   ever_staged, cold, crashes>>

Purge(c) == PurgeDone(c) \/ PurgeFails(c)

BackoffRequeue(c) ==
    /\ pc[c] = "backoff"
    /\ LET k == FirstMatch(processing, job_json_bytes[c])
       IN  IF k = 0
           THEN UNCHANGED broker
           ELSE /\ main_queue' = Append(main_queue, processing[k])
                /\ processing' = RemoveAt(processing, k)
    /\ pc' = [pc EXCEPT ![c] = "idle"]
    /\ exc' = [exc EXCEPT ![c] = "none"]
    /\ UNCHANGED <<store, job_json_bytes, history>>

\* time.sleep(1), then the next iteration of while True.
Backoff(c) ==
    /\ pc[c] = "backoff"
    /\ pc' = [pc EXCEPT ![c] = "idle"]
    /\ exc' = [exc EXCEPT ![c] = "none"]
    /\ UNCHANGED <<broker, store, job_json_bytes, history>>

\* One step of the loop of start_worker by consumer c.
start_worker(c) ==
    \/ Dequeue(c)
    \/ DequeueFails(c)
    \/ Parse(c)
    \/ Process(c)
    \/ Ack(c)
    \/ AckFails(c)
    \/ Purge(c)
    \/ Backoff(c)

Next ==
    \/ \E b \in Payloads : Enqueue(b)
    \/ \E c \in Consumers : Start(c)
    \/ \E c \in Consumers : Crash(c)
    \/ \E c \in Consumers : start_worker(c)

Spec == Init /\ [][Next]_vars

\* process_job over every goal list and every ranking: the same consumers,
\* with well-formed envelopes only, a reachable broker and no kill; the store
\* and the pipeline may still fail inside process_job.
JobPayloads == {B_GOOD, B_NOUSER}

JobInit ==
    /\ Fresh
    /\ ranked_resources \in Rankings
    /\ \E goals \in GoalLists : idps = [i \in IdpIds |-> [InitialIdp EXCEPT !.goals = goals]]

JobNext ==
    \/ \E b \in JobPayloads : Enqueue(b)
    \/ \E c \in Consumers : Start(c)
    \/ \E c \in Consumers : Dequeue(c)
    \/ \E c \in Consumers : Parse(c)
    \/ \E c \in Consumers : Process(c)
    \/ \E c \in Consumers : Ack(c)

JobSpec == JobInit /\ [][JobNext]_vars

\* The system with nothing going wrong around it: no consumer is killed, the
\* broker and the store answer every call, the pipeline returns a ranking.
OkNext ==
    \/ \E b \in Payloads : Enqueue(b)
    \/ \E c \in Consumers : Start(c)
    \/ \E c \in Consumers : Dequeue(c)
    \/ \E c \in Consumers : Parse(c)
    \/ \E c \in Consumers : ProcessWith(c, TRUE, TRUE)
    \/ \E c \in Consumers : Ack(c)
    \/ \E c \in Consumers : PurgeDone(c)
    \/ \E c \in Consumers : Backoff(c)

\* The consumers are started and keep being scheduled; BRPOPLPUSH returns
\* when the main queue holds an entry.
OkSpec ==
    /\ Init
    /\ [][OkNext]_vars
    /\ \A c \in Consumers :
         /\ WF_vars(Start(c))
         /\ WF_vars(Dequeue(c))
         /\ WF_vars(Parse(c) \/ ProcessWith(c, TRUE, TRUE) \/ Ack(c) \/ PurgeDone(c) \/ Backoff(c))

\* LREM on its own: a consumer about to acknowledge or purge any payload,
\* against any processing list of up to MaxLen entries (with or without
\* entries equal to the payload), the main queue empty or holding an entry.
LRemValues == {B_GOOD, B_NOUSER, B_NOTJSON}

ListsOf(n) == [1..n -> LRemValues]

Numbered(payloads) == [k \in 1..Len(payloads) |-> [id |-> k, payload |-> payloads[k]]]

LRemInit ==
    /\ \E n \in 0..MaxLen : \E payloads \in ListsOf(n) : processing = Numbered(payloads)
    /\ main_queue \in {<<>>, <<[id |-> MaxLen + 1, payload |-> B_GOOD]>>}
    /\ \E v \in LRemValues :
         /\ job_json_bytes = [c \in Consumers |-> IF c = "w1" THEN v ELSE Unbound]
         /\ pc = [c \in Consumers |->
                    IF c # "w1" THEN "stopped"
                    ELSE IF parse_step(v) = "JSONDecodeError" THEN "purge" ELSE "ack"]
    /\ idps = [i \in IdpIds |-> InitialIdp]
    /\ clock = 1
    /\ ranked_resources = rank_resources
    /\ skills_to_improve = <<>>
    /\ written = EmptyBag
    /\ exc = [c \in Consumers |-> "none"]
    /\ job_id = [c \in Consumers |-> 0]
    /\ next_id = MaxLen + 2
    /\ delivered = <<>>
    /\ removed = {}
    /\ ever_staged = Ids(processing)
    /\ cold = {}
    /\ parked = EmptyBag
    /\ crashes = 0

LRemNext ==
    \/ \E c \in Consumers : Ack(c)
    \/ \E c \in Consumers : PurgeDone(c)

LRemSpec == LRemInit /\ [][LRemNext]_vars

\* The loop after the dequeue, over every kind of payload: both consumers
\* have just been handed an entry by BRPOPLPUSH, the first and the second
\* one enqueued.
ParsePayloads == Payloads \cup OddPayloads

ParseInit ==
    /\ \E p1, p2 \in ParsePayloads :
         /\ processing = <<[id |-> 2, payload |-> p2], [id |-> 1, payload |-> p1]>>
         /\ job_json_bytes = [c \in Consumers |-> IF c = "w1" THEN p1 ELSE p2]
    /\ job_id = [c \in Consumers |-> IF c = "w1" THEN 1 ELSE 2]
    /\ pc = [c \in Consumers |-> "staged"]
    /\ main_queue = <<>>
    /\ idps = [i \in IdpIds |-> InitialIdp]
    /\ clock = 1
    /\ ranked_resources = rank_resources
    /\ skills_to_improve = <<>>
    /\ written = EmptyBag
    /\ exc = [c \in Consumers |-> "none"]
    /\ next_id = 3
    /\ delivered = <<1, 2>>
    /\ removed = {}
    /\ ever_staged = {1, 2}
    /\ cold = {}
    /\ parked = EmptyBag
    /\ crashes = 0

ParseNext ==
    \/ \E c \in Consumers : Parse(c)
    \/ \E c \in Consumers : Process(c)
    \/ \E c \in Consumers : Ack(c)
    \/ \E c \in Consumers : PurgeDone(c)
    \/ \E c \in Consumers : Backoff(c)

ParseSpec == ParseInit /\ [][ParseNext]_vars

\* The steps of the loop that do not wait for the broker to hand out a job.
LoopStep(c) ==
    Parse(c) \/ Process(c) \/ Ack(c) \/ AckFails(c) \/ Purge(c) \/ Backoff(c)

\* Each consumer is a sequential process that keeps being scheduled: while it
\* is not killed, the next statement of its loop is eventually executed.
LiveSpec == Spec /\ \A c \in Consumers : WF_vars(LoopStep(c))

(* ----------------------------- properties ---------------------------- *)

Enqueued == 1..(next_id - 1)

\* Number of positions of the two lists that hold the entry id.
Places(id) ==
    Cardinality({i \in 1..Len(main_queue) : main_queue[i].id = id})
      + Cardinality({i \in 1..Len(processing) : processing[i].id = id})

Absent(id) == id \notin Ids(main_queue) \cup Ids(processing)

\* Number of jobs with payload v left behind for the given reason.
ParkedFor(v, why) == CopiesIn([payload |-> v, why |-> why], parked)

\* Number of consumers that hold a job with payload v.
LiveHolders(v) ==
    Cardinality({c \in Consumers : pc[c] \in Holding /\ job_json_bytes[c] = v})

\* The payload cannot be parsed as JSON.
NotJson(b) == ~b.valid \/ JsonLoads(b.text).type = "JSONDecodeError"

\* The payload is a job envelope whose userId or idpId matches no record.
MissingEntity(b) ==
    /\ b.valid
    /\ LET d == GetData(JsonLoads(b.text))
       IN  d.type = "object" /\ (d.userId \notin Users \/ d.idpId \notin IdpIds)

\* C1: every enqueued entry is at exactly one position of the main queue or
\* the processing list, or at none; it is never in both lists, and it is in
\* neither only when an LREM has removed it.
C1_OnePlaceOrAcknowledged ==
    \A id \in Enqueued :
        /\ Places(id) <= 1
        /\ Absent(id) <=> id \in removed

C1_Witness ==
    /\ removed # {}
    /\ processing # <<>>
    /\ crashes = 1
    /\ \E c \in Consumers : pc[c] \in Holding

\* C2: with several consumers on one main queue, BRPOPLPUSH returns every
\* entry that left the main queue exactly once: no id is returned twice, and
\* the ids returned are exactly the enqueued ids no longer in the main queue.
C2_EachEntryToOneConsumer ==
    /\ \A i, j \in 1..Len(delivered) : i # j => delivered[i] # delivered[j]
    /\ {delivered[i] : i \in 1..Len(delivered)} = Enqueued \ Ids(main_queue)

C2_Witness ==
    /\ \A c \in Consumers : pc[c] \in Holding
    /\ Len(delivered) = 2

\* C3: a job whose consumer was killed between BRPOPLPUSH and LREM stays in
\* the processing list: in every state, for every payload, the list holds at
\* least one entry for each killed consumer's job with that payload, on top
\* of the entries of the consumers still holding a job with that payload.
\* (A job is identified by its serialized form, which is all LREM compares.)
C3_CrashedJobStaysStaged ==
    \A v \in Payloads :
        Count(processing, v) >= ParkedFor(v, "crash") + LiveHolders(v)

C3_Witness ==
    \E v \in Payloads :
        /\ ParkedFor(v, "crash") = 1
        /\ Count(processing, v) = 1
        /\ removed # {}
        /\ Len(delivered) = 2

\* C4 (as claimed): a consumer that dequeued a payload that cannot be parsed
\* as JSON goes on to the purge of that payload, whatever the payload.
C4_EveryUnparsablePayloadPurged ==
    [][\A c \in Consumers :
          (pc[c] = "staged" /\ NotJson(job_json_bytes[c]) /\ pc'[c] # "staged")
             => pc'[c] \in {"purge", "dead"}]_vars

\* C5: process_job returns normally whatever happens inside it (the loop goes
\* on to LREM, never to an except clause); the LREM that follows removes one
\* entry with the job's payload and returns the consumer to idle, and only a
\* failure of the LREM call itself (broker unreachable) keeps it from that.
C5_ProcessJobNeverRaises ==
    [][\A c \in Consumers :
          /\ (pc[c] = "process" /\ pc'[c] # "process") => pc'[c] \in {"ack", "dead"}
          /\ (pc[c] = "ack" /\ pc'[c] = "idle") =>
                Count(processing', job_json_bytes[c])
                   = Count(processing, job_json_bytes[c]) - 1
          /\ (pc[c] = "ack" /\ pc'[c] \notin {"ack", "idle", "dead"}) =>
                pc'[c] = "backoff" /\ exc'[c] = "ConnectionError"]_vars

C5_Witness ==
    \E c \in Consumers : pc[c] = "ack" /\ exc[c] \in {"PyMongoError", "PipelineError"}

\* C6: processing a job whose userId or idpId matches no record writes no IDP
\* record, and the loop's LREM then removes one entry with that payload.
C6_MissingEntityNoWriteStillAcked ==
    [][\A c \in Consumers :
          MissingEntity(job_json_bytes[c]) =>
             /\ (pc[c] = "process" /\ pc'[c] # "process") =>
                   idps' = idps /\ pc'[c] \in {"ack", "dead"}
             /\ (pc[c] = "ack" /\ pc'[c] = "idle") =>
                   /\ idps' = idps
                   /\ Len(processing') = Len(processing) - 1
                   /\ Count(processing', job_json_bytes[c])
                        = Count(processing, job_json_bytes[c]) - 1]_vars

C6_Witness ==
    \E c \in Consumers :
        /\ pc[c] = "idle"
        /\ MissingEntity(job_json_bytes[c])
        /\ Count(processing, job_json_bytes[c]) = 0
        /\ removed # {}
        /\ idps = [i \in IdpIds |-> InitialIdp]

\* C7 (as claimed): a broker or data store failure met while a job is staged
\* reaches the worker loop, which backs off without acknowledging the job.
C7_InfraFailureReachesLoop ==
    \A c \in Consumers :
        exc[c] \in {"PyMongoError", "ConnectionError"} => pc[c] = "backoff"

\* C7 (amended): a broker failure reaches the worker loop, which backs off
\* leaving both lists as they are and then returns to idle; a data store
\* failure is caught inside process_job and the loop goes on to LREM.
C7_BrokerFailureBacksOff ==
    /\ [](\A c \in Consumers :
            /\ exc[c] = "ConnectionError" => pc[c] = "backoff"
            /\ exc[c] = "PyMongoError" => pc[c] = "ack")
    /\ [][\A c \in Consumers :
            /\ (pc[c] = "ack" /\ exc'[c] = "ConnectionError") =>
                  /\ UNCHANGED <<main_queue, processing>>
                  /\ ParkedFor(job_json_bytes[c], "exception")'
                       = ParkedFor(job_json_bytes[c], "exception") + 1
            /\ (pc[c] = "backoff" /\ exc[c] = "ConnectionError" /\ pc'[c] # "backoff") =>
                  /\ pc'[c] \in {"idle", "dead"}
                  /\ UNCHANGED <<main_queue, processing>>]_vars
    /\ [](\A v \in Payloads :
            Count(processing, v) >= ParkedFor(v, "exception") + LiveHolders(v))

C7_Witness ==
    \E c \in Consumers :
        /\ pc[c] = "idle"
        /\ job_json_bytes[c] = B_GOOD
        /\ ParkedFor(B_GOOD, "exception") = 1
        /\ Count(processing, B_GOOD) = 1
        /\ main_queue = <<>>
        /\ idps["i1"].status = "active"

\* C8: an exception other than a JSON parse error that reaches the worker
\* loop sends the consumer to the backoff pause with no LREM; from the pause
\* the consumer returns to idle; the job it had dequeued keeps its entry in
\* the processing list.
C8_EscapedExceptionParksJob ==
    /\ [](\A c \in Consumers :
            (exc[c] \notin {"none", "JSONDecodeError"} /\ pc[c] # "ack") => pc[c] = "backoff")
    /\ [][\A c \in Consumers :
            /\ (pc[c] # "backoff" /\ pc'[c] = "backoff") =>
                  /\ UNCHANGED <<main_queue, processing, removed>>
                  /\ exc'[c] \notin {"none", "JSONDecodeError"}
            /\ (pc[c] = "backoff" /\ pc'[c] # "backoff") =>
                  /\ pc'[c] \in {"idle", "dead"}
                  /\ UNCHANGED <<main_queue, processing, removed>>]_vars
    /\ [](\A v \in Payloads : Count(processing, v) >= ParkedFor(v, "exception"))

C8_Witness ==
    \E c \in Consumers :
        /\ pc[c] = "idle"
        /\ job_json_bytes[c] = B_NUMBER
        /\ ParkedFor(B_NUMBER, "exception") = 1
        /\ Count(processing, B_NUMBER) = 1

\* C9: BRPOPLPUSH hands the entries out in the order of their enqueue, to
\* whichever consumer: the ids returned are increasing.
C9_FifoDelivery ==
    \A i, j \in 1..Len(delivered) : i < j => delivered[i] < delivered[j]

C9_Witness ==
    /\ Len(delivered) = 2
    /\ pc["w1"] = "staged"
    /\ pc["w2"] = "process"
    /\ job_json_bytes["w1"] # job_json_bytes["w2"]

\* C10: an entry enqueued while no consumer was running is never absent from
\* both lists unless it was observed in the processing list before.
C10_StagedBeforeAbsent ==
    \A id \in cold : Absent(id) => id \in ever_staged

C10_Witness ==
    \E id \in cold : Absent(id) /\ id \in ever_staged

\* C11: no error ends the loop.  A consumer that is past its dequeue -- holding a
\* job, purging, or backing off after a failed broker call, a failed decode
\* or a failed acknowledgment -- and is not killed is eventually back at the
\* blocking dequeue; the loop has no position other than those of one
\* iteration.
C11_LoopNeverEnds ==
    /\ [](\A c \in Consumers :
            pc[c] \in {"stopped", "idle", "staged", "process", "ack", "purge", "backoff", "dead"})
    /\ \A c \in Consumers :
         (Running(c) /\ pc[c] # "idle") ~> (pc[c] \in {"idle", "dead"})

\* A consumer is back at the dequeue after two of its iterations ended in a
\* failure (an exception that reached the loop, a failed purge), unkilled.
C11_Witness ==
    /\ crashes = 0
    /\ \E c \in Consumers :
         /\ pc[c] = "idle"
         /\ pc[CHOOSE d \in Consumers : d # c] = "stopped"
         /\ \E v, w \in Payloads :
              /\ ParkedFor(v, "exception") > 0
              /\ ParkedFor(w, "purge_failed") > 0

\* C12: whenever a job has been processed for the existing User and an IDP with at
\* least one goal, the IDP's suggestedResources are the first min(10, n)
\* entries of the pipeline's ranking of n entries, in the ranking's order:
\* at most ten, by descending score, each referring to a fetched Resource.
C12_TopTenOfRanking ==
    \A i \in IdpIds :
        (idps[i].status = "active" /\ Len(idps[i].goals) >= 1) =>
            LET recs == idps[i].suggestedResources
                n    == Len(ranked_resources)
            IN  /\ Len(recs) = (IF n < 10 THEN n ELSE 10)
                /\ \A k \in 1..Len(recs) :
                     /\ recs[k].resource = ranked_resources[k].resource
                     /\ recs[k].score = ranked_resources[k].score
                     /\ recs[k].resource \in all_resources
                /\ \A k \in 1..(Len(recs) - 1) : recs[k].score >= recs[k + 1].score

\* A written IDP with a goal, whose ranking had more than ten entries.
C12_Witness ==
    /\ idps["i1"].status = "active"
    /\ Len(idps["i1"].goals) >= 1
    /\ Len(ranked_resources) > 10
    /\ Len(idps["i1"].suggestedResources) = 10
    /\ idps["i1"].suggestedResources[10].score < idps["i1"].suggestedResources[1].score

\* C13: idempotence by overwrite: with the same User, Skills and Resources, a
\* processing of an envelope whose IDP already carries a result leaves the
\* IDP's suggestedResources and status as the first processing left them; the
\* list is replaced, never appended to.
C13_SecondProcessingOverwrites ==
    [][\A i \in IdpIds :
          (idps[i].status = "active" /\ idps'[i] # idps[i]) =>
              /\ idps'[i].suggestedResources = idps[i].suggestedResources
              /\ idps'[i].status = idps[i].status
              /\ idps'[i].suggestedResources = formatted_recs(ranked_resources)]_vars

\* The same envelope was processed twice, with a non-empty result.
C13_Witness ==
    /\ clock = 3
    /\ idps["i1"].updatedAt = 2
    /\ idps["i1"].suggestedResources # <<>>
    /\ Len(delivered) = 2

\* A well-formed envelope naming an existing User and an existing IDP.
GoodJob(b) ==
    /\ parse_step(b) = "ok"
    /\ LET d == GetData(JsonLoads(DecodeUtf8(b)))
       IN  d.type = "object" /\ d.userId \in Users /\ d.idpId \in IdpIds

InMainQueue(id) == \E k \in 1..Len(main_queue) : main_queue[k].id = id /\ GoodJob(main_queue[k].payload)

\* C14: with fair scheduling, no kill and no infrastructure failure, every
\* well-formed job enqueued for an existing User and IDP leads to a state
\* where the IDP carries the suggestedResources, status "active" and a
\* refreshed updatedAt, the job is in neither list, and its result has been
\* written once; no job's result is ever written more than once.
C14_GoodJobCompletesOnce ==
    /\ \A id \in 1..MaxJobs :
         InMainQueue(id) ~>
            /\ Absent(id)
            /\ CopiesIn(id, written) = 1
            /\ \A i \in IdpIds :
                 /\ idps[i].status = "active"
                 /\ idps[i].suggestedResources = formatted_recs(ranked_resources)
                 /\ idps[i].updatedAt > InitialIdp.updatedAt
    /\ [](\A id \in 1..MaxJobs : CopiesIn(id, written) <= 1)

\* Two such jobs, both completed and each written once.
C14_Witness ==
    /\ removed = {1, 2}
    /\ CopiesIn(1, written) = 1
    /\ CopiesIn(2, written) = 1
    /\ \A c \in Consumers : pc[c] = "idle"
    /\ idps["i1"].status = "active"
    /\ idps["i1"].updatedAt = 2

\* C15: LREM with count 1, as the consumer issues it to acknowledge or purge:
\* when the processing list holds entries equal to the value, the first of
\* them from the head is removed and every other entry keeps its relative
\* order; when it holds none, the list is unchanged; the main queue is
\* unchanged.
C15_LRemRemovesFirstMatch ==
    [][\A c \in Consumers :
          (pc[c] \in {"ack", "purge"} /\ pc'[c] = "idle") =>
              LET v == job_json_bytes[c]
                  M == {k \in 1..Len(processing) : processing[k].payload = v}
              IN  /\ main_queue' = main_queue
                  /\ IF M = {}
                     THEN processing' = processing
                     ELSE LET k == CHOOSE m \in M : \A o \in M : m <= o
                          IN  /\ Len(processing') = Len(processing) - 1
                              /\ \A j \in 1..(k - 1) : processing'[j] = processing[j]
                              /\ \A j \in k..(Len(processing) - 1) :
                                   processing'[j] = processing[j + 1]]_vars

\* LREM removed the second entry, the first one equal to the value, and kept
\* the unequal entry before it and the equal entry after it.
C15_Witness ==
    /\ pc["w1"] = "idle"
    /\ removed = {2}
    /\ Len(processing) = 2
    /\ processing[1].id = 1
    /\ processing[1].payload # job_json_bytes["w1"]
    /\ processing[2].id = 3
    /\ processing[2].payload = job_json_bytes["w1"]
    /\ main_queue # <<>>

\* C16: the consumer neither re-inserts nor retries.  The main queue grows only
\* by a producer's enqueue of a new entry, at its head, in a step no
\* consumer takes part in; no entry goes from the processing list back to
\* the main queue; no entry is handed out by BRPOPLPUSH twice; and an entry
\* leaves the processing list only in the acknowledging or purging LREM of a
\* consumer whose payload equals the entry's.
C16_NoReinsertNoRetry ==
    [][/\ Len(main_queue') > Len(main_queue) =>
            /\ next_id' = next_id + 1
            /\ main_queue' = <<[id |-> next_id, payload |-> main_queue'[1].payload]>> \o main_queue
            /\ pc' = pc
            /\ processing' = processing
       /\ Ids(main_queue') \subseteq Ids(main_queue) \cup {next_id}
       /\ Ids(main_queue') \cap (Ids(processing) \cup removed \cup Ids(processing')) = {}
       /\ \A m, n \in 1..Len(delivered') : m # n => delivered'[m] # delivered'[n]
       /\ \A k \in 1..Len(processing) :
            processing[k].id \notin Ids(processing') =>
                \E c \in Consumers :
                    /\ pc[c] \in {"ack", "purge"}
                    /\ pc'[c] = "idle"
                    /\ job_json_bytes[c] = processing[k].payload]_vars

\* A job was left in the processing list by an exception, its consumer went
\* through the back-off and dequeued and acknowledged the next job: the first
\* job is still parked, and the main queue is empty.
C16_Witness ==
    /\ main_queue = <<>>
    /\ Len(delivered) = 2
    /\ removed = {2}
    /\ Ids(processing) = {1}
    /\ ParkedFor(processing[1].payload, "exception") = 1
    /\ pc["w1"] = "idle"
    /\ pc["w2"] = "stopped"
    /\ crashes = 0

\* C17: process_job changes the store at most once per invocation, as its last
\* step: a step that changes an IDP is the end of one process_job call that
\* caught no exception, changes one IDP, and sets its suggestedResources,
\* status and updatedAt together, leaving its other fields.  A call that
\* ends in the missing-entity return or in a caught exception leaves every
\* IDP as it was.  No IDP ever has one of the three fields changed without
\* the other two.
C17_OneWriteOfThreeFields ==
    /\ [][/\ idps' # idps =>
               /\ clock' = clock + 1
               /\ \E c \in Consumers :
                    pc[c] = "process" /\ pc'[c] = "ack" /\ exc'[c] = "none"
               /\ \E i \in IdpIds :
                    /\ \A j \in IdpIds \ {i} : idps'[j] = idps[j]
                    /\ idps'[i] = [idps[i] EXCEPT
                                      !.suggestedResources = formatted_recs(ranked_resources),
                                      !.status = "active",
                                      !.updatedAt = clock]
          /\ \A c \in Consumers :
               ( /\ pc[c] = "process"
                 /\ pc'[c] # "process"
                 /\ (exc'[c] # "none" \/ MissingEntity(job_json_bytes[c])) ) => idps' = idps]_vars
    /\ [](\A i \in IdpIds :
            \/ /\ idps[i].status = "draft"
               /\ idps[i].updatedAt = InitialIdp.updatedAt
               /\ idps[i].suggestedResources = InitialIdp.suggestedResources
            \/ /\ idps[i].status = "active"
               /\ idps[i].updatedAt > InitialIdp.updatedAt
               /\ idps[i].suggestedResources = formatted_recs(ranked_resources))

\* A first job's result was written; the processing of a second job then
\* ended in a caught store error and left the IDP as the first write left it.
C17_Witness ==
    /\ Len(delivered) = 2
    /\ clock = 2
    /\ idps["i1"].status = "active"
    /\ idps["i1"].updatedAt = 1
    /\ \E c \in Consumers : pc[c] = "ack" /\ exc[c] = "PyMongoError" /\ job_id[c] = 2
    /\ CopiesIn(1, written) = 1

\* C18: once process_job has built the skill-gap list for an IDP, the list has one
\* entry per goal, in goal order, with the goal's skill as skillId; an entry
\* carries the goal's own gap and levels when the goal has them, and gap
\* 0.5, currentLevel 1, targetLevel 5 when it has not.
C18_SkillGapFromGoal ==
    (skills_to_improve # <<>> \/ clock > 1) =>
        LET goals == idps["i1"].goals
        IN  /\ Len(skills_to_improve) = Len(goals)
            /\ \A k \in 1..Len(goals) :
                 /\ skills_to_improve[k].skillId = goals[k].skill
                 /\ skills_to_improve[k].gap =
                        (IF goals[k].has_levels THEN goals[k].gap ELSE "0.5")
                 /\ skills_to_improve[k].currentLevel =
                        (IF goals[k].has_levels THEN goals[k].currentLevel ELSE 1)
                 /\ skills_to_improve[k].targetLevel =
                        (IF goals[k].has_levels THEN goals[k].targetLevel ELSE 5)

\* Number of jobs with payload v that were dequeued and are not acknowledged:
\* held by a consumer, or left behind when its iteration ended without LREM
\* (kill, exception, skipped empty payload, failed purge).
Unacknowledged(v) ==
    LiveHolders(v) + ParkedFor(v, "crash") + ParkedFor(v, "exception")
                   + ParkedFor(v, "skipped") + ParkedFor(v, "purge_failed")

\* C19: acknowledgment by value with duplicate payloads: in every state and for
\* every payload v, the processing list holds as many entries equal to v as
\* there are jobs with payload v dequeued and not yet acknowledged -- held by
\* a consumer or left behind by a kill, an exception, a skip or a failed
\* purge.  An acknowledging or purging LREM removes one entry, of the
\* consumer's payload, possibly the one another consumer staged.
C19_CountByValue ==
    /\ [](\A v \in Payloads : Count(processing, v) = Unacknowledged(v))
    /\ [][\A c \in Consumers :
            (pc[c] \in {"ack", "purge"} /\ pc'[c] = "idle" /\ parked' = parked) =>
                /\ Len(processing') = Len(processing) - 1
                /\ Count(processing', job_json_bytes[c]) = Count(processing, job_json_bytes[c]) - 1
                /\ Cardinality(removed') = Cardinality(removed) + 1]_vars

\* Two jobs with the same payload are held by two consumers; one has
\* acknowledged and LREM removed the entry the other consumer staged, whose
\* own job now rests on the entry the first consumer staged.
C19_Witness ==
    \E c \in Consumers :
        /\ pc[c] \in Holding
        /\ job_id[c] \in removed
        /\ Count(processing, job_json_bytes[c]) = 1
        /\ job_id[c] \notin Ids(processing)
        /\ crashes = 0

\* The payload is not valid UTF-8, or it is valid JSON but not an object
\* whose "data" is absent or an object.
NotAnEnvelope(b) ==
    \/ ~b.valid /\ b # Unbound
    \/ /\ b.valid
       /\ LET job == JsonLoads(b.text)
          IN  /\ job.type # "JSONDecodeError"
              /\ job.type # "object" \/ (job.has_data /\ job.data.type # "object")

\* C20: a dequeued payload that is not valid UTF-8, or that is valid JSON but not
\* an object whose "data" is absent or an object, is neither purged nor
\* processed: its consumer is never at the process_job call, the
\* acknowledgment or the purge with it; from the dequeue it goes to the
\* back-off with the exception recorded and the job left behind, and from
\* the back-off to the dequeue; no step lowers the number of entries of
\* that payload in the processing list or writes to the store.
C20_NonEnvelopeBacksOff ==
    /\ [](\A c \in Consumers :
            NotAnEnvelope(job_json_bytes[c]) => pc[c] \notin {"process", "ack", "purge"})
    /\ [][\A c \in Consumers :
            ( /\ NotAnEnvelope(job_json_bytes[c])
              /\ pc[c] \in {"staged", "backoff"}
              /\ pc'[c] # pc[c] ) =>
                /\ pc[c] = "staged" =>
                     /\ pc'[c] = "backoff"
                     /\ exc'[c] \in {"UnicodeDecodeError", "AttributeError"}
                     /\ ParkedFor(job_json_bytes[c], "exception")' =
                            ParkedFor(job_json_bytes[c], "exception") + 1
                /\ pc[c] = "backoff" => pc'[c] = "idle"
                /\ processing' = processing
                /\ idps' = idps
                /\ written' = written]_vars
    /\ [][\A v \in ParsePayloads :
            NotAnEnvelope(v) => Count(processing', v) >= Count(processing, v)]_vars

\* A consumer is back at the dequeue after the back-off for {"data": null},
\* the other one after the back-off for bytes that are not UTF-8; both
\* entries are still in the processing list and nothing was written.
C20_Witness ==
    /\ \A c \in Consumers : pc[c] = "idle"
    /\ job_json_bytes["w1"] = Bytes(TRUE, T_DATANULL)
    /\ job_json_bytes["w2"] = B_BADUTF8
    /\ Ids(processing) = {1, 2}
    /\ ParkedFor(Bytes(TRUE, T_DATANULL), "exception") = 1
    /\ ParkedFor(B_BADUTF8, "exception") = 1
    /\ clock = 1

=============================================================================
